---- MODULE Spec2Model ----
(***************************************************************************)
(* Two-street traffic light controller (UltimateSandbox/stoplight).        *)
(*                                                                         *)
(* Two programs drive the same six GPIO lines through the same six-phase   *)
(* cycle:                                                                  *)
(*   variant = "raw"  src/traffic_light.c      memory-mapped registers     *)
(*   variant = "pi5"  src/traffic_light_pi5.c  libgpiod line request       *)
(*                                                                         *)
(* The model follows main() statement by statement.  pc is the position of *)
(* the main control path; the SIGINT handler is the action Signal, which   *)
(* may run between any two steps of main().                                *)
(*                                                                         *)
(* A 32-bit register word is the set of its 1-bits (a subset of 0..31).    *)
(* Time is counted in seconds (the source counts microseconds).            *)
(***************************************************************************)
EXTENDS Integers, Sequences, FiniteSets, TLC

VARIABLES
    variant,        \* which program runs: "raw" or "pi5"
    pc,             \* position of main()
    phase,          \* which of the six phase blocks of the loop body main() is in
    i,              \* loop index (pin loops, chip path loop)
    cycle,          \* int cycle
    slept,          \* seconds spent in the current usleep()
    keep_running,   \* volatile int keep_running
    gpio,           \* the GPIO bank: [fsel: function-select words, level: output levels]
    cfg_lines,      \* offsets added to the gpiod line config
    held,           \* OS resources the process holds
    exitCode,       \* return value of main(), -1 while running
    trace,          \* history: backend operations issued so far
    sigAt,          \* history: where main() was when SIGINT first arrived
    mode,           \* "run": bounded run with history; "live": unbounded run, no
                    \* history; "probe": one backend operation sequence on its own
    probe           \* the pin and the saved bank of a "probe" run

vars == <<variant, pc, phase, i, cycle, slept, keep_running, gpio, cfg_lines,
          held, exitCode, trace, sigAt, mode, probe>>

----------------------------------------------------------------------------
(* Bounds of the model *)

MaxCycle == 2

\* a pin of the bank that has no role, for the probe runs
ProbeOtherPin == 4

\* the highest pin number configured in the function-select runs
FieldPinMax == 57

\* the highest pin number driven alone in the mask-write runs
MaskPinMax == 30

----------------------------------------------------------------------------
(* Program constants *)

STREET_A_RED    == 17
STREET_A_YELLOW == 27
STREET_A_GREEN  == 22
STREET_B_RED    == 23
STREET_B_YELLOW == 24
STREET_B_GREEN  == 25

NUM_LEDS == 6

GPSET0 == 7
GPCLR0 == 10

GREEN_TIME    == 5
YELLOW_TIME   == 1
SAFETY_BUFFER == 1

offsets == <<STREET_A_RED, STREET_A_YELLOW, STREET_A_GREEN,
             STREET_B_RED, STREET_B_YELLOW, STREET_B_GREEN>>

chip_paths == <<"/dev/gpiochip0", "/dev/gpiochip4", "gpiochip0", "gpiochip4">>

RolePins == {offsets[j] : j \in 1..NUM_LEDS}

----------------------------------------------------------------------------
(* 32-bit words as sets of bit positions *)

Bits == 0..31

Shl(w, n) == {b + n : b \in w} \cap Bits
Bic(v, m) == v \ m
Orr(v, b) == v \cup b

----------------------------------------------------------------------------
(* The register bank behind the volatile pointer gpio (raw variant) *)

ldr_reads_zero(mem, offset) == {}

ldr(mem, offset) == mem.fsel[offset]

str(mem, offset, value) ==
    IF offset = GPSET0 THEN [mem EXCEPT !.level = @ \cup value]
    ELSE IF offset = GPCLR0 THEN [mem EXCEPT !.level = @ \ value]
    ELSE [mem EXCEPT !.fsel[offset] = value]

gpio_set_output_wrong_shift(mem, pin) ==
    LET reg_offset  == pin \div 10
        bit_offset  == (pin % 10) * 3
        value       == ldr(mem, reg_offset)
        mask        == Shl({0, 1, 2}, bit_offset)
        output_bits == Shl({1}, bit_offset)
    IN  str(mem, reg_offset, Orr(Bic(value, mask), output_bits))

gpio_set_output(mem, pin) ==
    LET reg_offset  == pin \div 10
        bit_offset  == (pin % 10) * 3
        value       == ldr(mem, reg_offset)
        mask        == Shl({0, 1, 2}, bit_offset)
        output_bits == Shl({0}, bit_offset)
    IN  str(mem, reg_offset, Orr(Bic(value, mask), output_bits))

gpio_set_high(mem, pin) == str(mem, GPSET0, Shl({0}, pin))

gpio_set_low_wrong_register(mem, pin) == str(mem, GPSET0, Shl({0}, pin))

gpio_set_low(mem, pin) == str(mem, GPCLR0, Shl({0}, pin))

gpio_set_multiple_clears(mem, pin_mask) == str(mem, GPCLR0, pin_mask)

gpio_set_multiple(mem, pin_mask) == str(mem, GPSET0, pin_mask)

gpio_clear_multiple(mem, pin_mask) == str(mem, GPCLR0, pin_mask)

all_pins_without_yellow ==
    Orr(Orr(Shl({0}, STREET_A_RED), Shl({0}, STREET_A_GREEN)),
        Orr(Orr(Shl({0}, STREET_B_RED), Shl({0}, STREET_B_YELLOW)),
            Shl({0}, STREET_B_GREEN)))

all_pins ==
    Orr(Orr(Orr(Shl({0}, STREET_A_RED), Shl({0}, STREET_A_YELLOW)),
            Shl({0}, STREET_A_GREEN)),
        Orr(Orr(Shl({0}, STREET_B_RED), Shl({0}, STREET_B_YELLOW)),
            Shl({0}, STREET_B_GREEN)))

----------------------------------------------------------------------------
(* The line request (pi5 variant) *)

\* a granted request makes the requested lines outputs driven inactive
gpiod_chip_request_lines(mem, lines) == [mem EXCEPT !.level = @ \ lines]

gpiod_line_request_set_value(mem, offset, value) ==
    [mem EXCEPT !.level = IF value = 1 THEN @ \cup {offset} ELSE @ \ {offset}]

gpio_set_value_asm_drops_value(mem, offset, value) ==
    gpiod_line_request_set_value(mem, offset, value % 1)

gpio_set_value_asm(mem, offset, value) ==
    gpiod_line_request_set_value(mem, offset, value % 2)

----------------------------------------------------------------------------
(* The six phase blocks of the loop body *)

PhaseColors == <<
    <<"G", "R">>, <<"Y", "R">>, <<"R", "R">>,
    <<"R", "G">>, <<"R", "Y">>, <<"R", "R">> >>

PhaseTime == <<GREEN_TIME, YELLOW_TIME, SAFETY_BUFFER,
               GREEN_TIME, YELLOW_TIME, SAFETY_BUFFER>>

ColorA(k) == PhaseColors[k + 1][1]
ColorB(k) == PhaseColors[k + 1][2]
Duration(k) == PhaseTime[k + 1]

StreetAPin_yellow_drives_green(c) ==
    IF c = "R" THEN {STREET_A_RED}
    ELSE IF c = "Y" THEN {STREET_A_GREEN}
    ELSE IF c = "G" THEN {STREET_A_GREEN}
    ELSE {}

\* the if / else-if chains of set_light_state: the pin driven high, if any
StreetAPin(c) ==
    IF c = "R" THEN {STREET_A_RED}
    ELSE IF c = "Y" THEN {STREET_A_YELLOW}
    ELSE IF c = "G" THEN {STREET_A_GREEN}
    ELSE {}

StreetBPin(c) ==
    IF c = "R" THEN {STREET_B_RED}
    ELSE IF c = "Y" THEN {STREET_B_YELLOW}
    ELSE IF c = "G" THEN {STREET_B_GREEN}
    ELSE {}

\* the block that follows the check of block k
NextPhaseSkips(k) == IF k = 1 THEN 3 ELSE k + 1

NextPhase(k) == k + 1

----------------------------------------------------------------------------
(* History *)

Ev(op, arg) == [op |-> op, arg |-> arg]

\* the history is kept in bounded runs only
Log(t) == IF mode = "live" THEN trace ELSE t

NoProbe == [pin |-> 0, before |-> {}]

NoSig == [pc |-> "none", phase |-> 0, cycle |-> 0, slept |-> 0, len |-> 0]

OpenResults == {"ok", "EACCES", "ENOENT"}

----------------------------------------------------------------------------
(* Initial state: SIGINT handler installed, nothing acquired yet.          *)
(* The bank is in a state a previous run of the controller can leave       *)
(* behind: any subset of one phase's lights still lit, the role pins       *)
(* unconfigured, in another function, or already outputs.                  *)

FselWords == 0..5

PriorRunLevels ==
    {S \in SUBSET RolePins :
        \E k \in 0..5 : S \subseteq (StreetAPin(ColorA(k)) \cup StreetBPin(ColorB(k)))}

RECURSIVE ConfigureAll(_, _)
ConfigureAll(mem, n) ==
    IF n = 0 THEN mem ELSE gpio_set_output(ConfigureAll(mem, n - 1), offsets[n])

BlankBank(w) == [fsel |-> [r \in FselWords |-> w], level |-> {}]

PriorFsel ==
    { BlankBank({}).fsel, BlankBank(Bits).fsel, ConfigureAll(BlankBank({}), NUM_LEDS).fsel }

Start ==
    /\ variant \in {"raw", "pi5"}
    /\ pc = IF variant = "raw" THEN "open" ELSE "chip_open"
    /\ phase = 0
    /\ i = 0
    /\ cycle = 0
    /\ slept = 0
    /\ keep_running = 1
    /\ \E f \in (IF variant = "raw" THEN PriorFsel ELSE {BlankBank({}).fsel}),
          s \in PriorRunLevels :
          gpio = [fsel |-> f, level |-> s]
    /\ cfg_lines = {}
    /\ held = {}
    /\ exitCode = -1
    /\ trace = << >>
    /\ sigAt = NoSig
    /\ probe = NoProbe

Init ==
    /\ mode = "run"
    /\ Start

----------------------------------------------------------------------------
(* Exit paths *)

Exit(code) == /\ exitCode' = code
              /\ pc' = "done"

Acquire(r) == Ev("acquire", r)
Release(r) == Ev("release", r)
Fail(what) == Ev("fail", what)

----------------------------------------------------------------------------
(* traffic_light.c: acquisition and pin configuration *)

\* open("/dev/mem", O_RDWR|O_SYNC)
RawOpen ==
    /\ variant = "raw"
    /\ pc = "open"
    /\ \E r \in OpenResults :
          IF r = "ok"
          THEN /\ held' = held \cup {"mem_fd"}
               /\ trace' = Log(trace \o <<Ev("open_attempt", <<0, r>>), Acquire("mem_fd")>>)
               /\ pc' = "mmap"
               /\ UNCHANGED exitCode
          ELSE /\ trace' = Log(trace \o <<Ev("open_attempt", <<0, r>>), Fail("open")>>)
               /\ Exit(1)
               /\ UNCHANGED held
    /\ UNCHANGED <<mode, probe, variant, phase, i, cycle, slept, keep_running, gpio, cfg_lines, sigAt>>

RawMmap_unchecked ==
    /\ variant = "raw"
    /\ pc = "mmap"
    /\ \E ok \in BOOLEAN :
          IF ok
          THEN /\ held' = (held \cup {"gpio_map"}) \ {"mem_fd"}
               /\ trace' = Log(trace \o <<Acquire("gpio_map"), Release("mem_fd")>>)
          ELSE /\ held' = held \ {"mem_fd"}
               /\ trace' = Log(trace \o <<Fail("mmap"), Release("mem_fd")>>)
    /\ pc' = "cfg"
    /\ i' = 0
    /\ UNCHANGED <<mode, probe, variant, phase, cycle, slept, keep_running, gpio, cfg_lines, exitCode, sigAt>>

\* mmap(...); close(mem_fd); if (gpio_map == MAP_FAILED) return 1; gpio = gpio_map
RawMmap ==
    /\ variant = "raw"
    /\ pc = "mmap"
    /\ \E ok \in BOOLEAN :
          IF ok
          THEN /\ held' = (held \cup {"gpio_map"}) \ {"mem_fd"}
               /\ trace' = Log(trace \o <<Acquire("gpio_map"), Release("mem_fd")>>)
               /\ pc' = "cfg"
               /\ UNCHANGED exitCode
          ELSE /\ held' = held \ {"mem_fd"}
               /\ trace' = Log(trace \o <<Fail("mmap"), Release("mem_fd")>>)
               /\ Exit(1)
    /\ i' = 0
    /\ UNCHANGED <<mode, probe, variant, phase, cycle, slept, keep_running, gpio, cfg_lines, sigAt>>

\* the six gpio_set_output() calls
RawConfigure ==
    /\ variant = "raw"
    /\ pc = "cfg"
    /\ gpio' = gpio_set_output(gpio, offsets[i + 1])
    /\ trace' = Log(Append(trace, Ev("fsel", offsets[i + 1])))
    /\ IF i + 1 < NUM_LEDS
       THEN /\ i' = i + 1
            /\ pc' = pc
       ELSE /\ i' = 0
            /\ pc' = "init_off"
    /\ UNCHANGED <<mode, probe, variant, phase, cycle, slept, keep_running, cfg_lines, held, exitCode, sigAt>>

----------------------------------------------------------------------------
(* traffic_light_pi5.c: acquisition and line request *)

ChipOpen_no_break ==
    /\ variant = "pi5"
    /\ pc = "chip_open"
    /\ \E r \in OpenResults :
          /\ trace' = Log(trace \o <<Ev("open_attempt", <<i, r>>)>>
                            \o (IF r = "ok" /\ "chip" \notin held
                                THEN <<Acquire("chip")>> ELSE << >>))
          /\ held' = IF r = "ok" THEN held \cup {"chip"} ELSE held
          /\ i' = IF i + 1 < Len(chip_paths) THEN i + 1 ELSE i
          /\ pc' = IF i + 1 < Len(chip_paths) THEN pc ELSE "chip_check"
    /\ UNCHANGED <<mode, probe, variant, phase, cycle, slept, keep_running, gpio, cfg_lines, exitCode, sigAt>>

ChipOpen_eacces_fatal ==
    /\ variant = "pi5"
    /\ pc = "chip_open"
    /\ \E r \in OpenResults :
          /\ trace' = Log(trace \o <<Ev("open_attempt", <<i, r>>)>>
                            \o (IF r = "ok" THEN <<Acquire("chip")>> ELSE << >>))
          /\ IF r = "ok"
             THEN /\ held' = held \cup {"chip"}
                  /\ pc' = "chip_check"
                  /\ i' = i
             ELSE /\ held' = held
                  /\ i' = IF i + 1 < Len(chip_paths) THEN i + 1 ELSE i
                  /\ pc' = IF i + 1 < Len(chip_paths) /\ r # "EACCES" THEN pc ELSE "chip_check"
    /\ UNCHANGED <<mode, probe, variant, phase, cycle, slept, keep_running, gpio, cfg_lines, exitCode, sigAt>>

\* one iteration of: for (i = 0; chip_paths[i] != NULL; i++) { chip = gpiod_chip_open(...) }
ChipOpen ==
    /\ variant = "pi5"
    /\ pc = "chip_open"
    /\ \E r \in OpenResults :
          /\ trace' = Log(trace \o <<Ev("open_attempt", <<i, r>>)>>
                            \o (IF r = "ok" THEN <<Acquire("chip")>> ELSE << >>))
          /\ IF r = "ok"
             THEN /\ held' = held \cup {"chip"}
                  /\ pc' = "chip_check"
                  /\ i' = i
             ELSE /\ held' = held
                  /\ i' = i + 1
                  /\ pc' = IF i + 1 < Len(chip_paths) THEN pc ELSE "chip_check"
    /\ UNCHANGED <<mode, probe, variant, phase, cycle, slept, keep_running, gpio, cfg_lines, exitCode, sigAt>>

\* if (!chip) return 1
ChipCheck ==
    /\ variant = "pi5"
    /\ pc = "chip_check"
    /\ IF "chip" \notin held
       THEN /\ trace' = Log(Append(trace, Fail("chip_open")))
            /\ Exit(1)
       ELSE /\ pc' = "settings"
            /\ UNCHANGED <<trace, exitCode>>
    /\ UNCHANGED <<mode, probe, variant, phase, i, cycle, slept, keep_running, gpio, cfg_lines, held, sigAt>>

\* settings = gpiod_line_settings_new(); direction output, value inactive
SettingsNew ==
    /\ variant = "pi5"
    /\ pc = "settings"
    /\ \E ok \in BOOLEAN :
          IF ok
          THEN /\ held' = held \cup {"settings"}
               /\ trace' = Log(Append(trace, Acquire("settings")))
               /\ pc' = "line_cfg"
               /\ UNCHANGED exitCode
          ELSE /\ held' = held \ {"chip"}
               /\ trace' = Log(trace \o <<Fail("settings"), Release("chip")>>)
               /\ Exit(1)
    /\ UNCHANGED <<mode, probe, variant, phase, i, cycle, slept, keep_running, gpio, cfg_lines, sigAt>>

\* line_cfg = gpiod_line_config_new()
LineConfigNew ==
    /\ variant = "pi5"
    /\ pc = "line_cfg"
    /\ \E ok \in BOOLEAN :
          IF ok
          THEN /\ held' = held \cup {"line_cfg"}
               /\ trace' = Log(Append(trace, Acquire("line_cfg")))
               /\ pc' = "add_lines"
               /\ UNCHANGED exitCode
          ELSE /\ held' = held \ {"settings", "chip"}
               /\ trace' = Log(trace \o <<Fail("line_cfg"), Release("settings"), Release("chip")>>)
               /\ Exit(1)
    /\ i' = 0
    /\ UNCHANGED <<mode, probe, variant, phase, cycle, slept, keep_running, gpio, cfg_lines, sigAt>>

AddLineSettings_off_by_one ==
    /\ variant = "pi5"
    /\ pc = "add_lines"
    /\ cfg_lines' = cfg_lines \cup {offsets[i + 1]}
    /\ IF i + 1 < NUM_LEDS - 1
       THEN /\ i' = i + 1
            /\ pc' = pc
       ELSE /\ i' = 0
            /\ pc' = "req_cfg"
    /\ UNCHANGED <<mode, probe, variant, phase, cycle, slept, keep_running, gpio, held, exitCode, trace, sigAt>>

\* for (i = 0; i < NUM_LEDS; i++) gpiod_line_config_add_line_settings(line_cfg, &offsets[i], 1, settings)
AddLineSettings ==
    /\ variant = "pi5"
    /\ pc = "add_lines"
    /\ cfg_lines' = cfg_lines \cup {offsets[i + 1]}
    /\ IF i + 1 < NUM_LEDS
       THEN /\ i' = i + 1
            /\ pc' = pc
       ELSE /\ i' = 0
            /\ pc' = "req_cfg"
    /\ UNCHANGED <<mode, probe, variant, phase, cycle, slept, keep_running, gpio, held, exitCode, trace, sigAt>>

\* req_cfg = gpiod_request_config_new()
RequestConfigNew ==
    /\ variant = "pi5"
    /\ pc = "req_cfg"
    /\ \E ok \in BOOLEAN :
          IF ok
          THEN /\ held' = held \cup {"req_cfg"}
               /\ trace' = Log(Append(trace, Acquire("req_cfg")))
               /\ pc' = "request"
               /\ UNCHANGED exitCode
          ELSE /\ held' = held \ {"line_cfg", "settings", "chip"}
               /\ trace' = Log(trace \o <<Fail("req_cfg"), Release("line_cfg"),
                                      Release("settings"), Release("chip")>>)
               /\ Exit(1)
    /\ UNCHANGED <<mode, probe, variant, phase, i, cycle, slept, keep_running, gpio, cfg_lines, sigAt>>

RequestLines_leaks_chip ==
    /\ variant = "pi5"
    /\ pc = "request"
    /\ \E ok \in BOOLEAN :
          IF ok
          THEN /\ held' = held \cup {"request"}
               /\ gpio' = gpiod_chip_request_lines(gpio, cfg_lines)
               /\ trace' = Log(trace \o <<Acquire("request"), Ev("request", cfg_lines)>>)
               /\ pc' = "free_cfgs"
               /\ UNCHANGED exitCode
          ELSE /\ held' = held \ {"req_cfg", "line_cfg", "settings"}
               /\ trace' = Log(trace \o <<Fail("request_lines"), Release("req_cfg"),
                                      Release("line_cfg"), Release("settings")>>)
               /\ Exit(1)
               /\ UNCHANGED gpio
    /\ UNCHANGED <<mode, probe, variant, phase, i, cycle, slept, keep_running, cfg_lines, sigAt>>

\* request = gpiod_chip_request_lines(chip, req_cfg, line_cfg): all lines of the
\* config become outputs driven inactive, or none is granted
RequestLines ==
    /\ variant = "pi5"
    /\ pc = "request"
    /\ \E ok \in BOOLEAN :
          IF ok
          THEN /\ held' = held \cup {"request"}
               /\ gpio' = gpiod_chip_request_lines(gpio, cfg_lines)
               /\ trace' = Log(trace \o <<Acquire("request"), Ev("request", cfg_lines)>>)
               /\ pc' = "free_cfgs"
               /\ UNCHANGED exitCode
          ELSE /\ held' = held \ {"req_cfg", "line_cfg", "settings", "chip"}
               /\ trace' = Log(trace \o <<Fail("request_lines"), Release("req_cfg"),
                                      Release("line_cfg"), Release("settings"),
                                      Release("chip")>>)
               /\ Exit(1)
               /\ UNCHANGED gpio
    /\ UNCHANGED <<mode, probe, variant, phase, i, cycle, slept, keep_running, cfg_lines, sigAt>>

\* the three frees after a granted request
FreeConfigs ==
    /\ variant = "pi5"
    /\ pc = "free_cfgs"
    /\ held' = held \ {"req_cfg", "line_cfg", "settings"}
    /\ trace' = Log(trace \o <<Release("req_cfg"), Release("line_cfg"), Release("settings")>>)
    /\ pc' = "init_off"
    /\ i' = 0
    /\ UNCHANGED <<mode, probe, variant, phase, cycle, slept, keep_running, gpio, cfg_lines, exitCode, sigAt>>

----------------------------------------------------------------------------
(* all_lights_off(): one GPCLR0 store (raw), six set_value calls (pi5) *)

all_lights_off_street_a_only(next) ==
    IF variant = "raw"
    THEN /\ gpio' = gpio_clear_multiple(gpio, Orr(Orr(Shl({0}, STREET_A_RED),
                                                      Shl({0}, STREET_A_YELLOW)),
                                                  Shl({0}, STREET_A_GREEN)))
         /\ trace' = Log(trace \o <<Ev("alloff", 0), Ev("clr", all_pins)>>)
         /\ i' = 0
         /\ pc' = next
    ELSE /\ gpio' = gpiod_line_request_set_value(gpio, offsets[i + 1], 0)
         /\ trace' = Log(trace \o (IF i = 0 THEN <<Ev("alloff", 0)>> ELSE << >>)
                           \o <<Ev("clr", {offsets[i + 1]})>>)
         /\ IF i + 1 < 3
            THEN /\ i' = i + 1
                 /\ pc' = pc
            ELSE /\ i' = 0
                 /\ pc' = next

all_lights_off(next) ==
    IF variant = "raw"
    THEN /\ gpio' = gpio_clear_multiple(gpio, all_pins)
         /\ trace' = Log(trace \o <<Ev("alloff", 0), Ev("clr", all_pins)>>)
         /\ i' = 0
         /\ pc' = next
    ELSE /\ gpio' = gpiod_line_request_set_value(gpio, offsets[i + 1], 0)
         /\ trace' = Log(trace \o (IF i = 0 THEN <<Ev("alloff", 0)>> ELSE << >>)
                           \o <<Ev("clr", {offsets[i + 1]})>>)
         /\ IF i + 1 < NUM_LEDS
            THEN /\ i' = i + 1
                 /\ pc' = pc
            ELSE /\ i' = 0
                 /\ pc' = next

\* set one pin high: gpio_set_high (raw) or gpio_set_value_asm(pin, 1) (pi5)
DriveHigh(pins) ==
    /\ gpio' = IF pins = {} THEN gpio
               ELSE LET p == CHOOSE q \in pins : TRUE
                    IN  IF variant = "raw" THEN gpio_set_high(gpio, p)
                        ELSE gpio_set_value_asm(gpio, p, 1)
    /\ trace' = Log(IF pins = {} THEN trace ELSE Append(trace, Ev("set", pins)))

----------------------------------------------------------------------------
(* main(): the common part *)

\* "Make sure all lights start off"
InitAllOff ==
    /\ pc = "init_off"
    /\ all_lights_off("sleep1")
    /\ UNCHANGED <<mode, probe, variant, phase, cycle, slept, keep_running, cfg_lines, held, exitCode, sigAt>>

\* sleep(1)
Sleep1 ==
    /\ pc = "sleep1"
    /\ pc' = "while"
    /\ UNCHANGED <<mode, probe, variant, phase, i, cycle, slept, keep_running, gpio, cfg_lines,
                   held, exitCode, trace, sigAt>>

WhileCheck_runs_once ==
    /\ pc = "while"
    /\ IF keep_running # 0 /\ cycle = 0
       THEN /\ cycle' = cycle + 1
            /\ phase' = 0
            /\ pc' = "enter"
            /\ UNCHANGED trace
       ELSE /\ pc' = "final_off"
            /\ trace' = Log(Append(trace, Ev("exit_loop", phase)))
            /\ UNCHANGED <<cycle, phase>>
    /\ i' = 0
    /\ UNCHANGED <<mode, probe, variant, slept, keep_running, gpio, cfg_lines, held, exitCode, sigAt>>

\* while (keep_running) { cycle++; ...
WhileCheck ==
    /\ pc = "while"
    /\ IF keep_running # 0
       THEN /\ (mode = "live" \/ cycle < MaxCycle)
            /\ cycle' = IF cycle < MaxCycle THEN cycle + 1 ELSE cycle
            /\ phase' = 0
            /\ pc' = "enter"
            /\ UNCHANGED trace
       ELSE /\ pc' = "final_off"
            /\ trace' = Log(Append(trace, Ev("exit_loop", phase)))
            /\ UNCHANGED <<cycle, phase>>
    /\ i' = 0
    /\ UNCHANGED <<mode, probe, variant, slept, keep_running, gpio, cfg_lines, held, exitCode, sigAt>>

\* the call set_light_state(a, b) of the current phase block
EnterPhase ==
    /\ pc = "enter"
    /\ trace' = Log(Append(trace, Ev("phase", phase)))
    /\ pc' = "off"
    /\ i' = 0
    /\ UNCHANGED <<mode, probe, variant, phase, cycle, slept, keep_running, gpio, cfg_lines,
                   held, exitCode, sigAt>>

LightsOff_skipped ==
    /\ pc = "off"
    /\ pc' = "setA"
    /\ UNCHANGED <<mode, probe, variant, phase, i, cycle, slept, keep_running, gpio, cfg_lines,
                   held, exitCode, trace, sigAt>>

\* set_light_state: all_lights_off()
LightsOff ==
    /\ pc = "off"
    /\ all_lights_off("setA")
    /\ UNCHANGED <<mode, probe, variant, phase, cycle, slept, keep_running, cfg_lines, held, exitCode, sigAt>>

\* set_light_state: street A
SetStreetA ==
    /\ pc = "setA"
    /\ DriveHigh(StreetAPin(ColorA(phase)))
    /\ pc' = "setB"
    /\ UNCHANGED <<mode, probe, variant, phase, i, cycle, slept, keep_running, cfg_lines, held, exitCode, sigAt>>

SetStreetB_skipped ==
    /\ pc = "setB"
    /\ pc' = "print"
    /\ UNCHANGED <<mode, probe, variant, phase, i, cycle, slept, keep_running, gpio, cfg_lines,
                   held, exitCode, trace, sigAt>>

\* set_light_state: street B
SetStreetB ==
    /\ pc = "setB"
    /\ DriveHigh(StreetBPin(ColorB(phase)))
    /\ pc' = "print"
    /\ UNCHANGED <<mode, probe, variant, phase, i, cycle, slept, keep_running, cfg_lines, held, exitCode, sigAt>>

\* print_state(...), then the sleep call is entered
PrintState ==
    /\ pc = "print"
    /\ pc' = "usleep"
    /\ slept' = 0
    /\ UNCHANGED <<mode, probe, variant, phase, i, cycle, keep_running, gpio, cfg_lines,
                   held, exitCode, trace, sigAt>>

\* one second passes inside usleep(); it returns when the duration has elapsed
UsleepTick ==
    /\ pc = "usleep"
    /\ slept' = slept + 1
    /\ pc' = IF slept + 1 < Duration(phase) THEN pc ELSE "check"
    /\ UNCHANGED <<mode, probe, variant, phase, i, cycle, keep_running, gpio, cfg_lines,
                   held, exitCode, trace, sigAt>>

BreakCheck_no_break ==
    /\ pc = "check"
    /\ UNCHANGED trace
    /\ IF phase < 5
       THEN /\ phase' = NextPhase(phase)
            /\ pc' = "enter"
       ELSE /\ phase' = phase
            /\ pc' = "while"
    /\ i' = 0
    /\ UNCHANGED <<mode, probe, variant, cycle, slept, keep_running, gpio, cfg_lines, held, exitCode, sigAt>>

\* if (!keep_running) break; otherwise fall through to the next block
\* (after the sixth block: back to the while condition)
BreakCheck ==
    /\ pc = "check"
    /\ IF keep_running = 0
       THEN /\ pc' = "final_off"
            /\ trace' = Log(Append(trace, Ev("exit_loop", phase)))
            /\ UNCHANGED phase
       ELSE /\ UNCHANGED trace
            /\ IF phase < 5
               THEN /\ phase' = NextPhase(phase)
                    /\ pc' = "enter"
               ELSE /\ phase' = phase
                    /\ pc' = "while"
    /\ i' = 0
    /\ UNCHANGED <<mode, probe, variant, cycle, slept, keep_running, gpio, cfg_lines, held, exitCode, sigAt>>

FinalAllOff_missing ==
    /\ pc = "final_off"
    /\ pc' = "release"
    /\ UNCHANGED <<mode, probe, variant, phase, i, cycle, slept, keep_running, gpio, cfg_lines,
                   held, exitCode, trace, sigAt>>

\* "Clean up - turn off all lights"
FinalAllOff ==
    /\ pc = "final_off"
    /\ all_lights_off("release")
    /\ UNCHANGED <<mode, probe, variant, phase, cycle, slept, keep_running, cfg_lines, held, exitCode, sigAt>>

ReleaseBackend_keeps_chip ==
    /\ pc = "release"
    /\ IF variant = "raw"
       THEN /\ held' = held \ {"gpio_map"}
            /\ trace' = Log(Append(trace, Release("gpio_map")))
       ELSE /\ held' = held \ {"request"}
            /\ trace' = Log(Append(trace, Release("request")))
    /\ Exit(0)
    /\ UNCHANGED <<mode, probe, variant, phase, i, cycle, slept, keep_running, gpio, cfg_lines, sigAt>>

\* munmap (raw) / gpiod_line_request_release, gpiod_chip_close (pi5); return 0
ReleaseBackend ==
    /\ pc = "release"
    /\ IF variant = "raw"
       THEN /\ held' = held \ {"gpio_map"}
            /\ trace' = Log(Append(trace, Release("gpio_map")))
       ELSE /\ held' = held \ {"request", "chip"}
            /\ trace' = Log(trace \o <<Release("request"), Release("chip")>>)
    /\ Exit(0)
    /\ UNCHANGED <<mode, probe, variant, phase, i, cycle, slept, keep_running, gpio, cfg_lines, sigAt>>

----------------------------------------------------------------------------
(* signal_handler(): keep_running = 0.  A handled signal makes a sleep in   *)
(* progress return early.                                                   *)

Signal_cleans_up ==
    /\ pc # "done"
    /\ keep_running' = 0
    /\ gpio' = [gpio EXCEPT !.level = @ \ RolePins]
    /\ sigAt' = IF keep_running # 0
                THEN [pc |-> pc, phase |-> phase, cycle |-> cycle,
                      slept |-> slept, len |-> Len(trace)]
                ELSE sigAt
    /\ pc' = IF pc = "usleep" THEN "check"
             ELSE IF pc = "sleep1" THEN "while"
             ELSE pc
    /\ UNCHANGED <<mode, probe, variant, phase, i, cycle, slept, cfg_lines, held, exitCode, trace>>

Signal_toggles ==
    /\ pc # "done"
    /\ keep_running' = 1 - keep_running
    /\ sigAt' = IF keep_running # 0
                THEN [pc |-> pc, phase |-> phase, cycle |-> cycle,
                      slept |-> slept, len |-> Len(trace)]
                ELSE sigAt
    /\ pc' = IF pc = "usleep" THEN "check"
             ELSE IF pc = "sleep1" THEN "while"
             ELSE pc
    /\ UNCHANGED <<mode, probe, variant, phase, i, cycle, slept, gpio, cfg_lines, held, exitCode, trace>>

Signal ==
    /\ pc # "done"
    /\ keep_running' = 0
    /\ sigAt' = IF keep_running # 0
                THEN [pc |-> pc, phase |-> phase, cycle |-> cycle,
                      slept |-> slept, len |-> Len(trace)]
                ELSE sigAt
    /\ pc' = IF pc = "usleep" THEN "check"
             ELSE IF pc = "sleep1" THEN "while"
             ELSE pc
    /\ UNCHANGED <<mode, probe, variant, phase, i, cycle, slept, gpio, cfg_lines, held, exitCode, trace>>

----------------------------------------------------------------------------

Next ==
    \/ RawOpen
    \/ RawMmap
    \/ RawConfigure
    \/ ChipOpen
    \/ ChipCheck
    \/ SettingsNew
    \/ LineConfigNew
    \/ AddLineSettings
    \/ RequestConfigNew
    \/ RequestLines
    \/ FreeConfigs
    \/ InitAllOff
    \/ Sleep1
    \/ WhileCheck
    \/ EnterPhase
    \/ LightsOff
    \/ SetStreetA
    \/ SetStreetB
    \/ PrintState
    \/ UsleepTick
    \/ BreakCheck
    \/ FinalAllOff
    \/ ReleaseBackend
    \/ Signal

Spec == Init /\ [][Next]_vars

----------------------------------------------------------------------------
(* Type invariant *)

TypeOK ==
    /\ variant \in {"raw", "pi5"}
    /\ phase \in 0..5
    /\ i \in 0..5
    /\ cycle \in 0..MaxCycle
    /\ slept \in 0..GREEN_TIME
    /\ keep_running \in {0, 1}
    /\ gpio.level \subseteq RolePins
    /\ exitCode \in {-1, 0, 1}

----------------------------------------------------------------------------
(* Observations used by the properties *)

High == gpio.level \cap RolePins

StreetA == {STREET_A_RED, STREET_A_YELLOW, STREET_A_GREEN}
StreetB == {STREET_B_RED, STREET_B_YELLOW, STREET_B_GREEN}

\* the function-select field of pin p holds the pattern 001 (raw);
\* the line request that owns p is granted (pi5)
IsOutput(p) ==
    IF variant = "raw"
    THEN LET off == (p % 10) * 3
         IN  {b \in ldr(gpio, p \div 10) : b \in off..(off + 2)} = {off}
    ELSE "request" \in held /\ p \in cfg_lines

Idx(op) == {j \in DOMAIN trace : trace[j].op = op}
IdxArg(op, a) == {j \in Idx(op) : trace[j].arg = a}
Count(op) == Cardinality(Idx(op))
CountArg(op, a) == Cardinality(IdxArg(op, a))

Min(S) == CHOOSE x \in S : \A y \in S : x <= y
Max(S) == CHOOSE x \in S : \A y \in S : x >= y

Writes == Idx("set") \cup Idx("clr")

\* the phases entered so far, in order
PhasesEntered ==
    LET RECURSIVE Pick(_)
        Pick(j) == IF j = 0 THEN << >>
                   ELSE IF trace[j].op = "phase" THEN Append(Pick(j - 1), trace[j].arg)
                   ELSE Pick(j - 1)
    IN  Pick(Len(trace))

\* phases entered after SIGINT first arrived
FurtherPhases == Cardinality({j \in Idx("phase") : j > sigAt.len})

BackendResources == IF variant = "raw" THEN {"gpio_map"} ELSE {"request", "chip"}

Resources == {"mem_fd", "gpio_map", "chip", "settings", "line_cfg", "req_cfg", "request"}

----------------------------------------------------------------------------
\* C1: in every reachable state, the two Green pins are never both high, and
\* a Green pin of one street is never high together with the Yellow pin of
\* the other street.
C1_NoConflictingGreen ==
    /\ ~(STREET_A_GREEN \in gpio.level /\ STREET_B_GREEN \in gpio.level)
    /\ ~(STREET_A_GREEN \in gpio.level /\ STREET_B_YELLOW \in gpio.level)
    /\ ~(STREET_B_GREEN \in gpio.level /\ STREET_A_YELLOW \in gpio.level)

\* street B shows Green in the second cycle, between the writes of a phase change
C1_Witness ==
    /\ cycle = 2
    /\ phase = 3
    /\ pc = "print"
    /\ STREET_B_GREEN \in gpio.level

\* C2: in every reachable state, after every single GPIO write, each street
\* has at most one of its three pins high.
C2_OnePerStreet ==
    /\ Cardinality(gpio.level \cap StreetA) <= 1
    /\ Cardinality(gpio.level \cap StreetB) <= 1

\* in the middle of a phase change: street A's pin is written, street B's not yet
C2_Witness ==
    /\ pc = "setB"
    /\ phase = 1
    /\ gpio.level \cap StreetA = {STREET_A_YELLOW}
    /\ gpio.level \cap StreetB = {}

\* C3: when SIGINT arrives during the wait of any phase, the run ends with
\* exactly one all_lights_off() after the loop is left, which drives all six
\* pins low, followed by exactly one release of the backend; nothing is
\* written after the release.
C3_ShutdownOnce ==
    (pc = "done" /\ sigAt.pc = "usleep") =>
        /\ Count("exit_loop") = 1
        /\ LET x == Min(Idx("exit_loop"))
               offs == {j \in Idx("alloff") : j > x}
               clrs == {j \in Idx("clr") : j > x}
               rels == {j \in Idx("release") : j > x}
           IN  /\ Cardinality(offs) = 1
               /\ offs = {x + 1}
               /\ UNION {trace[j].arg : j \in clrs} = RolePins
               /\ High = {}
               /\ \A r \in BackendResources :
                     /\ CountArg("release", r) = 1
                     /\ IdxArg("release", r) \subseteq rels
               /\ {trace[j].arg : j \in rels} = BackendResources
               /\ \A j \in rels : \A w \in Writes \cup Idx("alloff") \cup Idx("phase") : w < j
               /\ \A j \in (x + 2)..Len(trace) : j \in clrs \cup rels
        /\ exitCode = 0

\* interrupted two seconds into the wait of phase 3 (street B green)
C3_Witness ==
    /\ pc = "done"
    /\ sigAt.pc = "usleep"
    /\ sigAt.phase = 3
    /\ sigAt.slept = 2
    /\ variant = "pi5"

\* C4: whenever the flag is set for the wait that follows a phase's light
\* command, that wait ends before its full duration, the loop is left and no
\* later phase is entered.
C4_WaitCutShort ==
    /\ (/\ pc = "check"
        /\ keep_running = 0
        /\ sigAt.cycle = cycle
        /\ sigAt.phase = phase
        /\ sigAt.pc \in {"print", "usleep"}) => slept < Duration(phase)
    /\ (keep_running = 0 /\ sigAt.pc \in {"print", "usleep"}) => FurtherPhases = 0

\* C5 (as stated): a flag set after a phase's wait ended and before the next
\* light command is issued keeps the next phase from being entered.
C5_Original ==
    (/\ keep_running = 0
     /\ sigAt.pc \in {"check", "enter", "while"}
     /\ \E j \in Idx("phase") : j <= sigAt.len) => FurtherPhases = 0

\* C5 (amended): the flag is read once after each wait and at the loop head.
\* A flag set before that read keeps the next phase from being entered; a
\* flag set after the read and before the call of set_light_state lets that
\* one phase be entered and none after it.
C5_Amended ==
    keep_running = 0 =>
        /\ sigAt.pc # "enter" => FurtherPhases = 0
        /\ sigAt.pc = "enter" => FurtherPhases <= 1
        /\ (sigAt.pc = "enter" /\ pc = "done") => FurtherPhases = 1

\* the wait of phase 1 ran its full duration, then SIGINT arrived before the read
C5_Witness ==
    /\ pc = "done"
    /\ sigAt.pc = "check"
    /\ sigAt.phase = 1
    /\ sigAt.slept = Duration(1)
    /\ FurtherPhases = 0

\* C6: the phases entered are 0,1,2,3,4,5,0,1,... in this order: the j-th
\* phase entered is (j-1) mod 6.
C6_PhaseOrder ==
    \A j \in DOMAIN PhasesEntered : PhasesEntered[j] = (j - 1) % 6

\* the cycle wrapped around: eight phases entered
C6_Witness ==
    /\ Len(PhasesEntered) = 8
    /\ PhasesEntered[7] = 0
    /\ PhasesEntered[8] = 1

\* C7: during the wait of each phase the high pins are exactly that phase's pair.
C7_PhaseLights ==
    pc = "usleep" =>
        High = CASE phase = 0 -> {STREET_A_GREEN, STREET_B_RED}
                 [] phase = 1 -> {STREET_A_YELLOW, STREET_B_RED}
                 [] phase = 2 -> {STREET_A_RED, STREET_B_RED}
                 [] phase = 3 -> {STREET_A_RED, STREET_B_GREEN}
                 [] phase = 4 -> {STREET_A_RED, STREET_B_YELLOW}
                 [] phase = 5 -> {STREET_A_RED, STREET_B_RED}

\* in the wait of phase 4 of the second cycle
C7_Witness ==
    /\ pc = "usleep"
    /\ phase = 4
    /\ cycle = 2
    /\ STREET_B_YELLOW \in gpio.level

\* C8: no pin is written unless all six are outputs (until the backend is
\* released); no pin is set high
\* before the initial all_lights_off(); before the first phase is entered
\* the six pins are configured and then exactly one all_lights_off() is made.
C8_SetupOrder ==
    /\ (Writes # {} /\ pc # "done") => \A p \in RolePins : IsOutput(p)
    /\ \A j \in Idx("set") : \E k \in Idx("alloff") : k < j
    /\ (Idx("phase") # {}) =>
          LET f == Min(Idx("phase"))
              offs == {j \in Idx("alloff") : j < f}
              cfgs == {j \in Idx("fsel") \cup Idx("request") : j < f}
          IN  /\ Cardinality(offs) = 1
              /\ IF variant = "raw"
                 THEN {trace[j].arg : j \in cfgs} = RolePins
                 ELSE {trace[j].arg : j \in cfgs} = {RolePins}
              /\ \A c \in cfgs : \A o \in offs : c < o
              /\ \A w \in Writes : w < f => (trace[w].op = "clr" /\ \A o \in offs : o < w)

\* the first light command is being carried out
C8_Witness ==
    /\ Count("phase") = 1
    /\ pc = "setA"
    /\ phase = 0
    /\ cycle = 1

\* C9: main returns 1 exactly when an acquisition call failed, and then no
\* phase was entered and no pin written; otherwise it returns 0.
C9_ExitCode ==
    /\ (Count("fail") > 0) => (pc = "done" /\ exitCode = 1)
    /\ pc = "done" =>
          /\ exitCode \in {0, 1}
          /\ exitCode = 1 <=> Count("fail") > 0
          /\ exitCode = 1 => (Writes = {} /\ Idx("phase") = {} /\ Idx("alloff") = {})
    /\ pc # "done" => exitCode = -1

\* the line request was refused
C9_Witness ==
    /\ pc = "done"
    /\ exitCode = 1
    /\ CountArg("fail", "request_lines") = 1

\* C10: every resource is released at most once and only while held; when
\* main has returned, on whatever path, nothing is held any more.
C10_ReleasedOnce ==
    /\ \A r \in Resources :
          /\ CountArg("acquire", r) <= 1
          /\ CountArg("release", r) <= CountArg("acquire", r)
          /\ r \in held <=> CountArg("acquire", r) > CountArg("release", r)
          /\ \A a \in IdxArg("acquire", r) : \A d \in IdxArg("release", r) : a < d
    /\ pc = "done" => held = {}

\* an error path taken while the chip, the settings and the line config are held
C10_Witness ==
    /\ pc = "done"
    /\ exitCode = 1
    /\ CountArg("fail", "req_cfg") = 1
    /\ CountArg("release", "chip") = 1

----------------------------------------------------------------------------
(* Acquisition *)

Attempts == Idx("open_attempt")

\* the candidates of the running program: "/dev/mem" alone, or chip_paths
NumCandidates == IF variant = "raw" THEN 1 ELSE Len(chip_paths)

Searching == pc \in {"open", "chip_open", "chip_check"}

\* C11: candidates are tried in list order, each at most once; the first one
\* that opens ends the search and is the one used; when all fail, every
\* candidate was tried exactly once and acquisition fails.
C11_FirstThatOpens ==
    /\ \A j \in Attempts : trace[j].arg[1] = Cardinality({k \in Attempts : k < j})
    /\ Cardinality(Attempts) <= NumCandidates
    /\ \A j \in Attempts :
          trace[j].arg[2] = "ok" =>
              /\ \A k \in Attempts : k <= j
              /\ trace[j + 1] = Acquire(IF variant = "raw" THEN "mem_fd" ELSE "chip")
    /\ CountArg("acquire", "chip") + CountArg("acquire", "mem_fd") <= 1
    /\ (~Searching /\ \A j \in Attempts : trace[j].arg[2] # "ok") =>
          /\ Cardinality(Attempts) = NumCandidates
          /\ pc = "done"
          /\ exitCode = 1

\* only the third chip path opened; the run has ended and no fourth was tried
C11_Witness ==
    /\ variant = "pi5"
    /\ pc = "done"
    /\ exitCode = 0
    /\ Cardinality(Attempts) = 3
    /\ \E j \in Attempts : trace[j].arg = <<2, "ok">>

\* C12 (as stated): after an open attempt that failed for lack of access
\* rights no further open attempt is made and the process exits with failure.
C12_Original ==
    \A j \in Attempts :
        trace[j].arg[2] = "EACCES" =>
            /\ \A k \in Attempts : k <= j
            /\ pc = "done" => exitCode = 1

\* C12 (amended): no candidate is tried twice.  With the single candidate of
\* the raw variant any failed open is fatal.  In the line-request variant the
\* cause of a failed chip open is not examined: after a failure of either
\* kind the next candidate is tried, and the process fails only when all four
\* candidates have failed.
C12_Amended ==
    /\ \A j, k \in Attempts : trace[j].arg[1] = trace[k].arg[1] => j = k
    /\ variant = "raw" =>
          \A j \in Attempts :
              trace[j].arg[2] \in {"EACCES", "ENOENT"} =>
                  (pc = "done" /\ exitCode = 1 /\ Attempts = {j})
    /\ variant = "pi5" =>
          /\ \A j \in Attempts :
                (/\ trace[j].arg[2] \in {"EACCES", "ENOENT"}
                 /\ trace[j].arg[1] + 1 < Len(chip_paths)
                 /\ pc # "chip_open") =>
                    \E k \in Attempts : k > j /\ trace[k].arg[1] = trace[j].arg[1] + 1
          /\ ~Searching =>
                (CountArg("fail", "chip_open") = 1 <=>
                    /\ Cardinality(Attempts) = Len(chip_paths)
                    /\ \A j \in Attempts : trace[j].arg[2] # "ok")

\* the first chip path was refused for lack of access rights, the second opened
C12_Witness ==
    /\ variant = "pi5"
    /\ pc = "done"
    /\ exitCode = 0
    /\ \E j \in Attempts : trace[j].arg = <<0, "EACCES">>
    /\ \E j \in Attempts : trace[j].arg = <<1, "ok">>

----------------------------------------------------------------------------
(* The interrupt handler *)

\* C13: a step of the interrupt handler, wherever main() is, changes no pin
\* level, no function-select word, not the phase, the cycle counter or the
\* resources held, and issues no backend operation.
C13_HandlerFrame ==
    [][(Signal \/ keep_running' # keep_running) =>
          /\ gpio' = gpio
          /\ phase' = phase
          /\ cycle' = cycle
          /\ i' = i
          /\ held' = held
          /\ cfg_lines' = cfg_lines
          /\ exitCode' = exitCode
          /\ trace' = trace]_vars

\* the handler ran between the two set-high writes of phase 0: street A is
\* green, street B still dark, nothing was written by the handler
C13_Witness ==
    /\ keep_running = 0
    /\ sigAt.pc = "setB"
    /\ pc = "setB"
    /\ phase = 0
    /\ High = {STREET_A_GREEN}
    /\ Len(trace) = sigAt.len

\* C14: the flag is not set at the start, only the handler writes it, and
\* once set it stays set.
C14_FlagMonotonic ==
    /\ keep_running = 1
    /\ [][/\ keep_running = 0 => keep_running' = 0
          /\ keep_running' # keep_running => Signal]_vars

\* set during pin configuration, still set when main() has returned
C14_Witness ==
    /\ pc = "done"
    /\ exitCode = 0
    /\ keep_running = 0
    /\ sigAt.pc = "cfg"

----------------------------------------------------------------------------
(* Probe run: configure one role pin, drive it high, drive it low, from any *)
(* prior state of the bank.                                                  *)

InitProbe ==
    /\ mode = "probe"
    /\ variant \in {"raw", "pi5"}
    /\ pc = "p_cfg"
    /\ phase = 0
    /\ i = 0
    /\ cycle = 0
    /\ slept = 0
    /\ keep_running = 1
    /\ \E f \in (IF variant = "raw" THEN PriorFsel ELSE {BlankBank({}).fsel}),
          s \in SUBSET (RolePins \cup {ProbeOtherPin}) :
          gpio = [fsel |-> f, level |-> s]
    /\ cfg_lines = {}
    /\ held = {}
    /\ exitCode = -1
    /\ trace = << >>
    /\ sigAt = NoSig
    /\ \E p \in RolePins : probe = [pin |-> p, before |-> {}]

\* configureOutput: gpio_set_output(pin) (raw), the batched request (pi5)
ProbeConfigure ==
    /\ mode = "probe"
    /\ pc = "p_cfg"
    /\ gpio' = IF variant = "raw" THEN gpio_set_output(gpio, probe.pin)
               ELSE gpiod_chip_request_lines(gpio, RolePins)
    /\ probe' = [probe EXCEPT !.before = gpio'.level]
    /\ pc' = "p_high"
    /\ UNCHANGED <<mode, variant, phase, i, cycle, slept, keep_running, cfg_lines,
                   held, exitCode, trace, sigAt>>

\* setHigh: gpio_set_high(pin) (raw), gpio_set_value_asm(pin, 1) (pi5)
ProbeSetHigh ==
    /\ mode = "probe"
    /\ pc = "p_high"
    /\ gpio' = IF variant = "raw" THEN gpio_set_high(gpio, probe.pin)
               ELSE gpio_set_value_asm(gpio, probe.pin, 1)
    /\ pc' = "p_low"
    /\ UNCHANGED <<mode, probe, variant, phase, i, cycle, slept, keep_running, cfg_lines,
                   held, exitCode, trace, sigAt>>

\* setLow: gpio_set_low(pin) (raw), gpio_set_value_asm(pin, 0) (pi5)
ProbeSetLow ==
    /\ mode = "probe"
    /\ pc = "p_low"
    /\ gpio' = IF variant = "raw" THEN gpio_set_low(gpio, probe.pin)
               ELSE gpio_set_value_asm(gpio, probe.pin, 0)
    /\ pc' = "p_done"
    /\ UNCHANGED <<mode, probe, variant, phase, i, cycle, slept, keep_running, cfg_lines,
                   held, exitCode, trace, sigAt>>

NextProbe ==
    \/ ProbeConfigure
    \/ ProbeSetHigh
    \/ ProbeSetLow

SpecProbe == InitProbe /\ [][NextProbe]_vars

\* C15: after configureOutput(p), setHigh(p) makes p high and the setLow(p)
\* that follows leaves p low; every other pin keeps the level it had before
\* setHigh.
C15_RoundTrip ==
    /\ pc = "p_low" =>
          /\ probe.pin \in gpio.level
          /\ gpio.level \ {probe.pin} = probe.before \ {probe.pin}
    /\ pc = "p_done" =>
          /\ probe.pin \notin gpio.level
          /\ gpio.level \ {probe.pin} = probe.before \ {probe.pin}

\* raw variant: the pin was high before the sequence, another role pin and
\* the pin without a role stayed high through it
C15_Witness ==
    /\ pc = "p_done"
    /\ variant = "raw"
    /\ probe.pin = STREET_A_GREEN
    /\ STREET_A_GREEN \in probe.before
    /\ {STREET_B_RED, ProbeOtherPin} \subseteq gpio.level

----------------------------------------------------------------------------
(* Progress.  main() is one sequential thread that the scheduler keeps      *)
(* running, and every sleep elapses: weak fairness of the main path.  The   *)
(* delivery of SIGINT is not fair: it may never happen.                      *)

MainPath ==
    \/ RawOpen
    \/ RawMmap
    \/ RawConfigure
    \/ ChipOpen
    \/ ChipCheck
    \/ SettingsNew
    \/ LineConfigNew
    \/ AddLineSettings
    \/ RequestConfigNew
    \/ RequestLines
    \/ FreeConfigs
    \/ InitAllOff
    \/ Sleep1
    \/ WhileCheck
    \/ EnterPhase
    \/ LightsOff
    \/ SetStreetA
    \/ SetStreetB
    \/ PrintState
    \/ UsleepTick
    \/ BreakCheck
    \/ FinalAllOff
    \/ ReleaseBackend

\* the bounded run with history, under fairness
SpecFair == Init /\ [][Next]_vars /\ WF_vars(MainPath)

\* the unbounded run: no history, the cycle counter saturates at MaxCycle
InitLive ==
    /\ mode = "live"
    /\ Start

SpecLive == InitLive /\ [][Next]_vars /\ WF_vars(MainPath)

\* C16: when acquisition succeeded and the flag is never set, each of the six
\* phases is entered again and again and the loop is never left.
C16_NoTerminalState ==
    ([](keep_running = 1) /\ <>(pc = "init_off")) =>
        /\ \A k \in 0..5 : []<>(pc = "enter" /\ phase = k)
        /\ [](pc \notin {"final_off", "release"})
        /\ [](pc = "done" => exitCode = 1)

\* phase 0 is about to be entered again after the counter has reached its cap
C16_Witness ==
    /\ mode = "live"
    /\ keep_running = 1
    /\ cycle = MaxCycle
    /\ pc = "while"
    /\ phase = 5

\* the backend was acquired: the mapping (raw), the line request (pi5)
Acquired ==
    CountArg("acquire", IF variant = "raw" THEN "gpio_map" ELSE "request") = 1

\* C17: once the flag is set after a successful acquisition, main() returns:
\* all six pins low, nothing held, exit code 0, and at most one phase was
\* entered after the flag was set.
C17_ShutdownGuaranteed ==
    /\ (keep_running = 0 /\ Acquired) ~>
          (pc = "done" /\ exitCode = 0 /\ High = {} /\ held = {} /\ FurtherPhases <= 1)
    /\ [](keep_running = 0 => FurtherPhases <= 1)

\* the flag was set between the check and the next light command: one more
\* phase was entered, then the run shut down
C17_Witness ==
    /\ pc = "done"
    /\ exitCode = 0
    /\ sigAt.pc = "enter"
    /\ sigAt.phase = 3
    /\ FurtherPhases = 1
    /\ High = {}
    /\ held = {}

----------------------------------------------------------------------------
(* The GPIO writes of one light command *)

\* the write events logged after position j
WritesSince(j) ==
    SelectSeq(SubSeq(trace, j + 1, Len(trace)), LAMBDA e : e.op \in {"set", "clr"})

\* the light command of the last phase entered has returned and the next
\* one has not begun
CommandDone ==
    /\ Idx("phase") # {}
    /\ pc \in {"print", "usleep", "check", "while", "enter"}

\* the light command of the last phase entered is running or has returned
InCommand ==
    /\ Idx("phase") # {}
    /\ pc \in {"off", "setA", "setB", "print", "usleep", "check", "while", "enter"}

LastPhaseAt == Max(Idx("phase"))

PhasePair(k) == StreetAPin(ColorA(k)) \cup StreetBPin(ColorB(k))

IsPrefix(u, w) == Len(u) <= Len(w) /\ SubSeq(w, 1, Len(u)) = u

\* the writes of set_light_state for phase k, in program order
CommandWrites(k) ==
    (IF variant = "raw"
     THEN <<Ev("clr", all_pins)>>
     ELSE [n \in 1..NUM_LEDS |-> Ev("clr", {offsets[n]})])
    \o <<Ev("set", StreetAPin(ColorA(k))), Ev("set", StreetBPin(ColorB(k)))>>

\* C18 as stated: a phase is entered with exactly two writes, one clear of
\* the six-pin mask and then one set of the mask of the phase's two pins.
C18_Original ==
    CommandDone =>
        WritesSince(LastPhaseAt) =
            <<Ev("clr", RolePins), Ev("set", PhasePair(trace[LastPhaseAt].arg))>>

\* C18 amended: a phase is entered with one all-lights-off (one clear of the
\* six-pin mask in the raw variant, six single-pin clears in the order of
\* offsets in the pi5 variant), then one single-pin set for street A, then one
\* single-pin set for street B, and no other write until the next phase.
C18_Amended ==
    /\ InCommand =>
          IsPrefix(WritesSince(LastPhaseAt), CommandWrites(trace[LastPhaseAt].arg))
    /\ CommandDone =>
          WritesSince(LastPhaseAt) = CommandWrites(trace[LastPhaseAt].arg)

\* the wait of phase 3 in the pi5 variant: eight writes since the phase began
C18_Witness ==
    /\ variant = "pi5"
    /\ pc = "usleep"
    /\ phase = 3
    /\ slept = 2
    /\ Len(WritesSince(LastPhaseAt)) = NUM_LEDS + 2
    /\ WritesSince(LastPhaseAt)[NUM_LEDS + 2] = Ev("set", {STREET_B_GREEN})

----------------------------------------------------------------------------
(* Phase changes *)

\* the pins lit by the phase before the one being entered
PreviousPair == PhasePair(PhasesEntered[Len(PhasesEntered) - 1])

\* all_lights_off of a phase change is running
ChangingPhase == pc = "off" /\ Len(PhasesEntered) >= 2

\* the pins all_lights_off has already written in this call (pi5)
ClearedSoFar == {offsets[n] : n \in 1..i}

\* C19 as stated: all six pins are low before the first pin of the entered
\* phase is set high, and all-lights-off is one operation: while it is in
\* progress no state shows the previous phase's pins partly cleared.
C19_Original ==
    /\ pc = "setA" => High = {}
    /\ pc = "setB" => High = StreetAPin(ColorA(phase))
    /\ ChangingPhase => High = PreviousPair

\* C19 amended: all six pins are low before the first pin of the entered
\* phase is set high, so no pin of the previous phase is high together with
\* a newly lit one.  In the raw variant all-lights-off is one store; in the
\* pi5 variant it clears the six pins one by one in the order of offsets, and
\* the states in between show the previous phase's pins partly cleared.
C19_Amended ==
    /\ pc = "setA" => High = {}
    /\ pc = "setB" => High = StreetAPin(ColorA(phase))
    /\ ChangingPhase =>
          High = IF variant = "raw" THEN PreviousPair ELSE PreviousPair \ ClearedSoFar

\* pi5, entering phase 3 after phase 2: street A's red is already low while
\* street B's red is still high
C19_Witness ==
    /\ variant = "pi5"
    /\ ChangingPhase
    /\ phase = 3
    /\ i = 1
    /\ High = {STREET_B_RED}

----------------------------------------------------------------------------
(* The line request of the pi5 variant *)

\* the pins the process holds through its line request
HeldPins == IF "request" \in held THEN cfg_lines ELSE {}

\* C20: in the pi5 variant the lines are requested once, for all six pins
\* together: the process holds none of the six pins or all six as outputs,
\* all six are inactive when the request is granted, and when the request
\* fails no pin is held and the process exits with failure.
C20_BatchedRequest ==
    variant = "pi5" =>
        /\ HeldPins \in {{}, RolePins}
        /\ Count("request") <= 1
        /\ \A j \in Idx("request") : trace[j].arg = RolePins
        /\ pc = "free_cfgs" =>
              /\ HeldPins = RolePins
              /\ \A p \in RolePins : IsOutput(p)
              /\ High = {}
        /\ CountArg("fail", "request_lines") > 0 =>
              /\ pc = "done"
              /\ exitCode = 1
              /\ HeldPins = {}
              /\ held = {}

\* the request has just been granted: all six held, all six inactive
C20_Witness ==
    /\ variant = "pi5"
    /\ pc = "free_cfgs"
    /\ Count("request") = 1
    /\ HeldPins = RolePins
    /\ High = {}

----------------------------------------------------------------------------
(* Function-select run: gpio_set_output(p) for any pin p of the bank, from  *)
(* a bounded choice of prior register contents, followed by               *)
(* gpio_set_output(q) for a role pin q # p.                                *)

\* prior contents of a function-select word: all zero, all one, the two
\* alternating patterns
PriorWords == { {}, Bits, {b \in Bits : b % 2 = 0}, {b \in Bits : b % 2 = 1} }

\* the 3-bit field of pin p, as the claim places it
FieldReg(p) == p \div 10
FieldBits(p) == LET off == (p % 10) * 3 IN off..(off + 2)
FieldPattern(p) == {(p % 10) * 3}

InitField ==
    /\ mode = "field"
    /\ variant = "raw"
    /\ pc = "f_cfg"
    /\ phase = 0
    /\ i = 0
    /\ cycle = 0
    /\ slept = 0
    /\ keep_running = 1
    /\ cfg_lines = {}
    /\ held = {}
    /\ exitCode = -1
    /\ trace = << >>
    /\ sigAt = NoSig
    /\ \E p \in 0..FieldPinMax, w \in PriorWords, f \in SUBSET {0, 1, 2},
          s \in {{}, RolePins} :
          /\ gpio = [fsel  |-> [r \in FselWords |->
                                   IF r = FieldReg(p)
                                   THEN (w \ FieldBits(p)) \cup Shl(f, (p % 10) * 3)
                                   ELSE w],
                     level |-> s]
          /\ probe = [pin |-> p, before |-> gpio]

\* gpio_set_output(p)
FieldConfigure ==
    /\ mode = "field"
    /\ pc = "f_cfg"
    /\ gpio' = gpio_set_output(gpio, probe.pin)
    /\ pc' = "f_next"
    /\ UNCHANGED <<mode, probe, variant, phase, i, cycle, slept, keep_running, cfg_lines,
                   held, exitCode, trace, sigAt>>

\* gpio_set_output(q) for one of the role pins other than p
FieldConfigureRole ==
    /\ mode = "field"
    /\ pc = "f_next"
    /\ \E n \in 1..NUM_LEDS :
          /\ offsets[n] # probe.pin
          /\ gpio' = gpio_set_output(gpio, offsets[n])
          /\ i' = n
    /\ pc' = "f_done"
    /\ UNCHANGED <<mode, probe, variant, phase, cycle, slept, keep_running, cfg_lines,
                   held, exitCode, trace, sigAt>>

NextField ==
    \/ FieldConfigure
    \/ FieldConfigureRole

SpecField == InitField /\ [][NextField]_vars

\* the bits of word r outside the fields of the pins in P
Outside(word, r, P) ==
    word \ UNION {FieldBits(p) : p \in {q \in P : FieldReg(q) = r}}

\* C21: gpio_set_output(p), p in 0..57, makes the 3-bit field at bit
\* (p mod 10)*3 of word p div 10 hold 001 (pin 17: word 1, bits 21..23) and
\* changes no other bit of that word, no other word and no pin level; a later
\* gpio_set_output of a role pin leaves p's field at 001.
C21_FieldFrame ==
    /\ pc = "f_next" =>
          LET p == probe.pin
          IN  /\ gpio.fsel[FieldReg(p)] \cap FieldBits(p) = FieldPattern(p)
              /\ \A r \in FselWords :
                    Outside(gpio.fsel[r], r, {p}) = Outside(probe.before.fsel[r], r, {p})
              /\ gpio.level = probe.before.level
              /\ p = STREET_A_RED =>
                    gpio.fsel[1] \cap (21..23) = {21}
    /\ pc = "f_done" =>
          LET p == probe.pin
              q == offsets[i]
          IN  /\ gpio.fsel[FieldReg(p)] \cap FieldBits(p) = FieldPattern(p)
              /\ gpio.fsel[FieldReg(q)] \cap FieldBits(q) = FieldPattern(q)
              /\ \A r \in FselWords :
                    Outside(gpio.fsel[r], r, {p, q}) = Outside(probe.before.fsel[r], r, {p, q})
              /\ gpio.level = probe.before.level

\* pin 17 configured from a word of all ones, then pin 27: word 1 has lost
\* bits 22 and 23, word 2 has lost bits 22 and 23, word 0 is untouched
C21_Witness ==
    /\ mode = "field"
    /\ pc = "f_done"
    /\ probe.pin = STREET_A_RED
    /\ offsets[i] = STREET_A_YELLOW
    /\ probe.before.fsel[1] = Bits
    /\ gpio.fsel[1] = Bits \ {22, 23}
    /\ gpio.fsel[2] = Bits \ {22, 23}
    /\ gpio.fsel[0] = Bits

----------------------------------------------------------------------------
(* Mask-write run (raw variant): one of gpio_set_high, gpio_set_low,        *)
(* gpio_set_multiple, gpio_clear_multiple, from any levels of the six role  *)
(* pins and of one pin without a role.                                      *)

MaskPins == RolePins \cup {ProbeOtherPin}

InitMask ==
    /\ mode = "mask"
    /\ variant = "raw"
    /\ pc = "m_op"
    /\ phase = 0
    /\ i = 0
    /\ cycle = 0
    /\ slept = 0
    /\ keep_running = 1
    /\ cfg_lines = {}
    /\ held = {}
    /\ exitCode = -1
    /\ trace = << >>
    /\ sigAt = NoSig
    /\ \E s \in SUBSET MaskPins :
          gpio = [fsel |-> ConfigureAll(BlankBank({}), NUM_LEDS).fsel, level |-> s]
    /\ probe = [op |-> "none", pin |-> 0, mask |-> {}, before |-> gpio]

MaskDone(op, pin, mask) ==
    /\ probe' = [op |-> op, pin |-> pin, mask |-> mask, before |-> gpio]
    /\ pc' = "m_done"
    /\ UNCHANGED <<mode, variant, phase, i, cycle, slept, keep_running, cfg_lines,
                   held, exitCode, trace, sigAt>>

\* gpio_set_high(p)
MaskSetHigh ==
    /\ mode = "mask"
    /\ pc = "m_op"
    /\ \E p \in 0..MaskPinMax :
          /\ gpio' = gpio_set_high(gpio, p)
          /\ MaskDone("set_high", p, {})

\* gpio_set_low(p)
MaskSetLow ==
    /\ mode = "mask"
    /\ pc = "m_op"
    /\ \E p \in 0..MaskPinMax :
          /\ gpio' = gpio_set_low(gpio, p)
          /\ MaskDone("set_low", p, {})

\* gpio_set_multiple(pin_mask)
MaskSetMultiple ==
    /\ mode = "mask"
    /\ pc = "m_op"
    /\ \E m \in SUBSET MaskPins :
          /\ gpio' = gpio_set_multiple(gpio, m)
          /\ MaskDone("set_multiple", 0, m)

\* gpio_clear_multiple(pin_mask)
MaskClearMultiple ==
    /\ mode = "mask"
    /\ pc = "m_op"
    /\ \E m \in SUBSET MaskPins :
          /\ gpio' = gpio_clear_multiple(gpio, m)
          /\ MaskDone("clear_multiple", 0, m)

NextMask ==
    \/ MaskSetHigh
    \/ MaskSetLow
    \/ MaskSetMultiple
    \/ MaskClearMultiple

SpecMask == InitMask /\ [][NextMask]_vars

\* C22: a set operation leaves high exactly the pins that were high or have
\* their bit in the mask, a clear operation leaves high exactly the pins that
\* were high and do not have their bit in the mask; the mask of
\* gpio_set_high(p) / gpio_set_low(p) is bit p alone; the set register is word
\* 7, the clear register word 10; no function-select word changes.
C22_MaskWrite ==
    /\ GPSET0 = 7
    /\ GPCLR0 = 10
    /\ pc = "m_done" =>
          LET b == probe.before
          IN  /\ gpio.fsel = b.fsel
              /\ probe.op = "set_high" => gpio.level = b.level \cup {probe.pin}
              /\ probe.op = "set_low" => gpio.level = b.level \ {probe.pin}
              /\ probe.op = "set_multiple" => gpio.level = b.level \cup probe.mask
              /\ probe.op = "clear_multiple" => gpio.level = b.level \ probe.mask

\* gpio_set_multiple with the mask of street A's red and street B's green,
\* from a state where street A's green and the pin without a role were high
C22_Witness ==
    /\ mode = "mask"
    /\ pc = "m_done"
    /\ probe.op = "set_multiple"
    /\ probe.mask = {STREET_A_RED, STREET_B_GREEN}
    /\ probe.before.level = {STREET_A_GREEN, ProbeOtherPin}
    /\ gpio.level = {STREET_A_RED, STREET_A_GREEN, STREET_B_GREEN, ProbeOtherPin}

----------------------------------------------------------------------------
(* The two variants at phase granularity *)

\* what an observer of the lights and of the backend sees, in order: every
\* all-lights-off, every phase entered, the release of the backend
Observed(e) ==
    \/ e.op \in {"alloff", "phase"}
    \/ e.op = "release" /\ e.arg \in {"gpio_map", "request"}

ObsSeq ==
    LET sel == SelectSeq(trace, Observed)
    IN  [j \in 1..Len(sel) |->
            IF sel[j].op = "release" THEN Ev("close", 0) ELSE sel[j]]

\* the observation of a run that enters n phases and then shuts down
RunOf(n) ==
    LET RECURSIVE Body(_)
        Body(k) == IF k = 0 THEN << >>
                   ELSE Body(k - 1) \o <<Ev("phase", (k - 1) % 6), Ev("alloff", 0)>>
    IN  <<Ev("alloff", 0)>> \o Body(n) \o <<Ev("alloff", 0), Ev("close", 0)>>

\* how many phases a run enters, from where main() was when SIGINT arrived:
\* before the loop or at the while condition, the cycles completed; at a
\* phase block (before, in or after its light command), up to that phase
PhasesFor(at) ==
    IF at.cycle = 0 \/ at.pc = "while"
    THEN 6 * at.cycle
    ELSE 6 * (at.cycle - 1) + at.phase + 1

\* C23: what either variant shows is the same function of the interrupt
\* timing alone: the initial all-off leaves all six pins low, the phases are
\* entered in the cyclic order, in each wait the high pins are the phase's
\* pair, and a run that was interrupted ends with the same number of phases,
\* the final all-off with all six pins low, then the release of the backend.
C23_SameObservation ==
    /\ Acquired => IsPrefix(ObsSeq, RunOf(Len(PhasesEntered)))
    /\ pc = "sleep1" => High = {}
    /\ pc = "usleep" => High = PhasePair(phase)
    /\ pc = "release" => High = {}
    /\ (pc = "done" /\ exitCode = 0) =>
          /\ ObsSeq = RunOf(PhasesFor(sigAt))
          /\ High = {}

\* pi5, interrupted in the wait of phase 3 of the second cycle: ten phases
C23_Witness ==
    /\ variant = "pi5"
    /\ pc = "done"
    /\ exitCode = 0
    /\ sigAt.pc = "usleep"
    /\ sigAt.phase = 3
    /\ sigAt.cycle = 2
    /\ Len(PhasesEntered) = 10
    /\ ObsSeq = RunOf(10)

====
